---- MODULE Spec2Model ----
(* Verification model of ValentinMorel/dynamo-ring:                        *)
(*   util/util.go      VectorClock (NewVectorClock, Update, Compare,       *)
(*                     String)                                             *)
(*   client main file  SwimringClient (levels, Connect, Get/Put/Delete/    *)
(*                     Stat)                                               *)
EXTENDS Integers, Sequences, FiniteSets, TLC

(***************************************************************************)
(* Bounds                                                                  *)
(***************************************************************************)
\* Largest counter an entry is driven to (Go's int is 64 bit; the wrap at
\* 2^63 Update calls is far outside the explored range).
MaxCounter == 3
\* Largest number of remote calls issued in one behaviour.
MaxCalls == 2

\* Largest number of words typed into one line handed to SafeSplit.
MaxWords == 4

\* Largest number of arguments typed after the command word.
MaxArgs == 3

\* Node identifiers handed to Update.
Nodes == {"n1", "n2"}
\* The three clocks of the model: an ancestor and two descendants.
ClockIds == {"V", "A", "B"}

VARIABLES
    V,          \* *VectorClock: the common ancestor
    A,          \* *VectorClock: first descendant of V
    B,          \* *VectorClock: second descendant of V
    updA,       \* nodes A was updated for since it diverged from V
    updB,       \* nodes B was updated for since it diverged from V
    out,        \* value returned by the most recent VectorClock call
    client,     \* SwimringClient.client: "nil" or "conn"
    readLevel,  \* SwimringClient.readLevel
    writeLevel, \* SwimringClient.writeLevel
    lastReq,    \* the request handed to the most recent client.Call
    calls,      \* number of client.Call invocations so far
    ret,        \* what the most recent client method returned
    setRead,    \* argument of the latest SetReadLevel call, or "never"
    setWrite,   \* argument of the latest SetWriteLevel call, or "never"
    exited,     \* the process has called os.Exit
    lastResp,   \* how the most recent client.Call ended
    replies,    \* number of responses received from the server so far
    updates,    \* number of Update calls made so far, per clock and node
    line,       \* the command line being typed, then handed to SafeSplit
    split,      \* what the most recent SafeSplit call returned
    cmdErr,     \* what the most recent processCommand call returned
    printed     \* what the most recent command printed

clockVars == <<V, A, B, updA, updB, out, updates>>
clientVars == <<client, readLevel, writeLevel, lastReq, calls, ret, setRead, setWrite, exited, lastResp, replies>>
shellVars == <<line, split, cmdErr, printed>>
vars == <<V, A, B, updA, updB, out, updates, client, readLevel, writeLevel, lastReq, calls, ret, setRead, setWrite, exited, lastResp, replies, line, split, cmdErr, printed>>

(***************************************************************************)
(* util.VectorClock                                                        *)
(***************************************************************************)
\* ClockEntry; the Updated timestamp takes no part in any ordering decision
\* and is left out.
ClockEntry(nodeID, counter) == [NodeID |-> nodeID, Counter |-> counter]

\* NewVectorClock: an empty Entries map.
NewVectorClock == [Entries |-> [n \in {} |-> ClockEntry(n, 0)]]

\* Keys of the Entries map.
Keys(vc) == DOMAIN vc.Entries

\* Update with the existing entry re-initialised instead of incremented.
Update_reinit(vc, nodeID) ==
    [Entries |-> [n \in Keys(vc) \cup {nodeID} |->
                    IF n = nodeID THEN ClockEntry(nodeID, 1) ELSE vc.Entries[n]]]

\* Update with a fresh map allocated when the entry is created.
Update_freshMap(vc, nodeID) ==
    IF nodeID \in Keys(vc)
    THEN [Entries |-> [vc.Entries EXCEPT ![nodeID].Counter = @ + 1]]
    ELSE [Entries |-> [n \in {nodeID} |-> ClockEntry(nodeID, 1)]]

\* Update with entry.Counter-- in place of entry.Counter++.
Update_decrement(vc, nodeID) ==
    IF nodeID \in Keys(vc)
    THEN [Entries |-> [vc.Entries EXCEPT ![nodeID].Counter = @ - 1]]
    ELSE [Entries |-> [n \in Keys(vc) \cup {nodeID} |->
                          IF n = nodeID THEN ClockEntry(nodeID, 1)
                                        ELSE vc.Entries[n]]]

\* Update with the new entry starting at Counter 0.
Update_zeroStart(vc, nodeID) ==
    IF nodeID \in Keys(vc)
    THEN [Entries |-> [vc.Entries EXCEPT ![nodeID].Counter = @ + 1]]
    ELSE [Entries |-> [n \in Keys(vc) \cup {nodeID} |->
                          IF n = nodeID THEN ClockEntry(nodeID, 0)
                                        ELSE vc.Entries[n]]]

\* Update: increment the entry of nodeID, or create it with Counter 1.
Update(vc, nodeID) ==
    IF nodeID \in Keys(vc)
    THEN [Entries |-> [vc.Entries EXCEPT ![nodeID].Counter = @ + 1]]
    ELSE [Entries |-> [n \in Keys(vc) \cup {nodeID} |->
                          IF n = nodeID THEN ClockEntry(nodeID, 1)
                                        ELSE vc.Entries[n]]]

\* First loop body without the else branch for a node vc does not hold.
OtherStep_noElse(vc, other, nodeID, f) ==
    IF nodeID \in Keys(vc)
    THEN IF vc.Entries[nodeID].Counter < other.Entries[nodeID].Counter
         THEN [f EXCEPT !.isOlder = TRUE]
         ELSE IF vc.Entries[nodeID].Counter > other.Entries[nodeID].Counter
              THEN [f EXCEPT !.isNewer = TRUE]
              ELSE f
    ELSE f

\* First loop body with <= in place of <.
OtherStep_leq(vc, other, nodeID, f) ==
    IF nodeID \in Keys(vc)
    THEN IF vc.Entries[nodeID].Counter <= other.Entries[nodeID].Counter
         THEN [f EXCEPT !.isOlder = TRUE]
         ELSE IF vc.Entries[nodeID].Counter > other.Entries[nodeID].Counter
              THEN [f EXCEPT !.isNewer = TRUE]
              ELSE f
    ELSE [f EXCEPT !.isOlder = TRUE]

\* Body of Compare's first loop, for one entry of other.Entries.
OtherStep(vc, other, nodeID, f) ==
    IF nodeID \in Keys(vc)
    THEN IF vc.Entries[nodeID].Counter < other.Entries[nodeID].Counter
         THEN [f EXCEPT !.isOlder = TRUE]
         ELSE IF vc.Entries[nodeID].Counter > other.Entries[nodeID].Counter
              THEN [f EXCEPT !.isNewer = TRUE]
              ELSE f
    ELSE [f EXCEPT !.isOlder = TRUE]

\* Second loop body that never raises isNewer.
ThisStep_skip(vc, other, nodeID, f) == f

\* Body of Compare's second loop, for one entry of vc.Entries.
ThisStep(vc, other, nodeID, f) ==
    IF nodeID \notin Keys(other) THEN [f EXCEPT !.isNewer = TRUE] ELSE f

\* for nodeID, otherEntry := range other.Entries { ... } in some map order.
RECURSIVE ScanOther(_, _, _, _)
ScanOther(vc, other, todo, f) ==
    IF todo = {} THEN f
    ELSE LET nodeID == CHOOSE n \in todo : TRUE
         IN  ScanOther(vc, other, todo \ {nodeID}, OtherStep(vc, other, nodeID, f))

\* for nodeID := range vc.Entries { ... } in some map order.
RECURSIVE ScanThis(_, _, _, _)
ScanThis(vc, other, todo, f) ==
    IF todo = {} THEN f
    ELSE LET nodeID == CHOOSE n \in todo : TRUE
         IN  ScanThis(vc, other, todo \ {nodeID}, ThisStep(vc, other, nodeID, f))

\* The if-chain with the isNewer test ahead of the combined test.
Verdict_newerFirst(f) ==
    IF f.isNewer THEN "NEWER"
    ELSE IF f.isNewer /\ f.isOlder THEN "CONCURRENT"
    ELSE IF f.isOlder THEN "OLDER"
    ELSE "EQUAL"

\* The if-chain that ends Compare.
Verdict(f) ==
    IF f.isNewer /\ f.isOlder THEN "CONCURRENT"
    ELSE IF f.isNewer THEN "NEWER"
    ELSE IF f.isOlder THEN "OLDER"
    ELSE "EQUAL"

\* Compare.
Compare(vc, other) ==
    LET f0 == [isNewer |-> FALSE, isOlder |-> FALSE]
        f1 == ScanOther(vc, other, Keys(other), f0)
        f2 == ScanThis(vc, other, Keys(vc), f1)
    IN  Verdict(f2)

\* All orders in which a range over a map with key set S may visit it.
RECURSIVE Orders(_)
Orders(S) ==
    IF S = {} THEN {<<>>}
    ELSE UNION {{<<n>> \o o : o \in Orders(S \ {n})} : n \in S}

\* String: "nodeID:counter " for each entry, in the order of the given walk;
\* a rendered entry is kept as the pair the Sprintf formats.
String(vc, order) == [i \in 1..Len(order) |-> <<order[i], vc.Entries[order[i]].Counter>>]

\* The clock a ClockId names.
ClockOf(id) == IF id = "V" THEN V ELSE IF id = "A" THEN A ELSE B

NoOut == [op |-> "none"]

\* The explored range: Update is called only while the counter is below
\* MaxCounter.
CanUpdate(vc, nodeID) ==
    IF nodeID \in Keys(vc) THEN vc.Entries[nodeID].Counter < MaxCounter ELSE TRUE

\* Update(nodeID) applied to the ancestor and to both of its copies, which
\* are still identical to it.
UpdateCommon(nodeID) ==
    /\ updA = {} /\ updB = {}
    /\ CanUpdate(V, nodeID)
    /\ V' = Update(V, nodeID)
    /\ A' = Update(A, nodeID)
    /\ B' = Update(B, nodeID)
    /\ updates' = [id \in ClockIds |-> [updates[id] EXCEPT ![nodeID] = @ + 1]]
    /\ out' = NoOut
    /\ UNCHANGED <<updA, updB>>
    /\ UNCHANGED <<clientVars, shellVars>>

\* A.Update(nodeID)
UpdateA(nodeID) ==
    /\ CanUpdate(A, nodeID)
    /\ A' = Update(A, nodeID)
    /\ updA' = updA \cup {nodeID}
    /\ updates' = [updates EXCEPT !["A"][nodeID] = @ + 1]
    /\ out' = NoOut
    /\ UNCHANGED <<V, B, updB>>
    /\ UNCHANGED <<clientVars, shellVars>>

\* B.Update(nodeID)
UpdateB(nodeID) ==
    /\ CanUpdate(B, nodeID)
    /\ B' = Update(B, nodeID)
    /\ updB' = updB \cup {nodeID}
    /\ updates' = [updates EXCEPT !["B"][nodeID] = @ + 1]
    /\ out' = NoOut
    /\ UNCHANGED <<V, A, updA>>
    /\ UNCHANGED <<clientVars, shellVars>>

\* x.Compare(y) for two of the clocks; only the return value is new.
CompareCall(x, y) ==
    /\ out' = [op |-> "Compare", x |-> x, y |-> y, res |-> Compare(ClockOf(x), ClockOf(y))]
    /\ UNCHANGED <<V, A, B, updA, updB, updates>>
    /\ UNCHANGED <<clientVars, shellVars>>

\* x.String() for one of the clocks; only the return value is new.
StringCall(x) ==
    /\ \E order \in Orders(Keys(ClockOf(x))) :
          out' = [op |-> "String", x |-> x, res |-> String(ClockOf(x), order)]
    /\ UNCHANGED <<V, A, B, updA, updB, updates>>
    /\ UNCHANGED <<clientVars, shellVars>>

Init ==
    /\ V = NewVectorClock
    /\ A = NewVectorClock
    /\ B = NewVectorClock
    /\ updA = {}
    /\ updB = {}
    /\ out = NoOut
    /\ client = "nil"
    /\ readLevel = "ALL"
    /\ writeLevel = "ALL"
    /\ lastReq = [op |-> "none"]
    /\ calls = 0
    /\ ret = [op |-> "none", val |-> "", nodes |-> <<>>, err |-> "nil"]
    /\ setRead = "never"
    /\ setWrite = "never"
    /\ exited = FALSE
    /\ lastResp = [kind |-> "none", err |-> "nil"]
    /\ replies = 0
    /\ updates = [id \in ClockIds |-> [n \in Nodes |-> 0]]
    /\ line = <<>>
    /\ split = [done |-> FALSE, res |-> <<>>]
    /\ cmdErr = "nil"
    /\ printed = [kind |-> "nothing", text |-> "", rows |-> 0]

NextClock ==
    \/ \E nodeID \in Nodes : UpdateCommon(nodeID)
    \/ \E nodeID \in Nodes : UpdateA(nodeID)
    \/ \E nodeID \in Nodes : UpdateB(nodeID)
    \/ \E x \in ClockIds, y \in ClockIds : CompareCall(x, y)
    \/ \E x \in ClockIds : StringCall(x)

SpecClock == Init /\ [][NextClock]_vars

(***************************************************************************)
(* Properties of VectorClock                                               *)
(***************************************************************************)
\* Counter of a node with absence read as 0.
Cnt(vc, n) == IF n \in Keys(vc) THEN vc.Entries[n].Counter ELSE 0

\* The reference classification of two version vectors.
RefCompare(a, b) ==
    IF \A n \in Nodes : Cnt(a, n) = Cnt(b, n) THEN "EQUAL"
    ELSE IF \A n \in Nodes : Cnt(a, n) >= Cnt(b, n) THEN "NEWER"
    ELSE IF \A n \in Nodes : Cnt(b, n) >= Cnt(a, n) THEN "OLDER"
    ELSE "CONCURRENT"

Mirror(r) == IF r = "NEWER" THEN "OLDER" ELSE IF r = "OLDER" THEN "NEWER" ELSE r

\* C1: for clocks built by Update calls, Compare returns the reference
\* classification in which a missing node counts as counter 0, both for every
\* pair of clocks of the state and for the value a Compare call returned.
C1_CompareIsReference ==
    /\ \A x \in ClockIds, y \in ClockIds :
          Compare(ClockOf(x), ClockOf(y)) = RefCompare(ClockOf(x), ClockOf(y))
    /\ out.op = "Compare" => out.res = RefCompare(ClockOf(out.x), ClockOf(out.y))

\* A.Compare(B) returned CONCURRENT for clocks with different key sets.
C1_Witness ==
    /\ out.op = "Compare" /\ out.x = "A" /\ out.y = "B" /\ out.res = "CONCURRENT"
    /\ Keys(A) \ Keys(B) # {}
    /\ Keys(B) \ Keys(A) # {}

\* C2: x.Compare(y) and y.Compare(x) are mirror images: NEWER against OLDER,
\* EQUAL against EQUAL, CONCURRENT against CONCURRENT.
C2_CompareMirror ==
    \A x \in ClockIds, y \in ClockIds :
        Compare(ClockOf(y), ClockOf(x)) = Mirror(Compare(ClockOf(x), ClockOf(y)))

\* B.Compare(A) returned OLDER where A.Compare(B) is NEWER, A holding a node
\* B lacks.
C2_Witness ==
    /\ out.op = "Compare" /\ out.x = "B" /\ out.y = "A" /\ out.res = "OLDER"
    /\ Compare(A, B) = "NEWER"
    /\ Keys(A) \ Keys(B) # {}

\* C3: a clock compared with itself is EQUAL, the empty clock included.
C3_CompareReflexive ==
    /\ \A x \in ClockIds : Compare(ClockOf(x), ClockOf(x)) = "EQUAL"
    /\ Compare(NewVectorClock, NewVectorClock) = "EQUAL"
    /\ (out.op = "Compare" /\ out.x = out.y) => out.res = "EQUAL"

\* A.Compare(A) was called on a clock with two entries.
C3_Witness ==
    /\ out.op = "Compare" /\ out.x = "A" /\ out.y = "A"
    /\ Cardinality(Keys(A)) >= 2

\* C4: a copy of V that received one or more Update calls, all for one node,
\* compares NEWER against V, and V compares OLDER against it.
C4_UpdatedIsNewer ==
    Cardinality(updA) = 1 =>
        /\ Compare(A, V) = "NEWER"
        /\ Compare(V, A) = "OLDER"

\* A non-empty V was copied, the copy updated twice for one node, and
\* A.Compare(V) called.
C4_Witness ==
    /\ Keys(V) # {}
    /\ \E n \in Keys(V) : updA = {n} /\ Cnt(A, n) = Cnt(V, n) + 2
    /\ out.op = "Compare" /\ out.x = "A" /\ out.y = "V" /\ out.res = "NEWER"

\* C5: two copies of a common ancestor, each updated at least once, on
\* disjoint node sets, compare CONCURRENT in both directions.
C5_DisjointIsConcurrent ==
    (updA # {} /\ updB # {} /\ updA \cap updB = {}) =>
        /\ Compare(A, B) = "CONCURRENT"
        /\ Compare(B, A) = "CONCURRENT"

\* An ancestor holding both nodes, A updated twice for one node and B once
\* for the other, and A.Compare(B) called.
C5_Witness ==
    /\ Keys(V) = Nodes
    /\ updA # {} /\ updB # {} /\ updA \cap updB = {}
    /\ \E n \in updA : Cnt(A, n) = Cnt(V, n) + 2
    /\ out.op = "Compare" /\ out.x = "A" /\ out.y = "B" /\ out.res = "CONCURRENT"

\* What Update(n) does to a clock: the entry of n is created with counter 1
\* or raised by one, every other entry and the set of other nodes are kept.
UpdateEffect(old, new, n) ==
    /\ Keys(new) = Keys(old) \cup {n}
    /\ new.Entries[n].NodeID = n
    /\ new.Entries[n].Counter = IF n \in Keys(old) THEN old.Entries[n].Counter + 1 ELSE 1
    /\ \A m \in Keys(old) \ {n} : new.Entries[m] = old.Entries[m]

\* C6: every Update(n) step changes exactly the entry of n: created with
\* counter 1 when absent, raised by exactly 1 otherwise; all other entries and
\* the set of other nodes are unchanged.
C6_UpdateFrame ==
    [][\A n \in Nodes :
          /\ UpdateA(n) => (UpdateEffect(A, A', n) /\ V' = V /\ B' = B)
          /\ UpdateB(n) => (UpdateEffect(B, B', n) /\ V' = V /\ A' = A)
          /\ UpdateCommon(n) => (UpdateEffect(V, V', n) /\ UpdateEffect(A, A', n)
                                    /\ UpdateEffect(B, B', n))]_vars

\* A was updated for a node it already held (counter 2) and for a node it
\* got as a new entry (counter 1) next to it.
C6_Witness ==
    \E n \in updA, m \in updA : Cnt(A, n) = 2 /\ Cnt(A, m) = 1 /\ Cnt(V, m) = 0

\* No entry of old is missing or lower in new.
Grown(old, new) ==
    \A n \in Keys(old) : n \in Keys(new) /\ new.Entries[n].Counter >= old.Entries[n].Counter

\* C7: over any interleaving of Update, Compare and String calls no counter
\* of any clock decreases and no entry disappears, and a step that returns
\* from Compare or String leaves every clock as it was.
C7_MonotoneAndPure ==
    [][/\ Grown(V, V') /\ Grown(A, A') /\ Grown(B, B')
       /\ (\E x \in ClockIds, y \in ClockIds : CompareCall(x, y)) => <<V, A, B>>' = <<V, A, B>>
       /\ (\E x \in ClockIds : StringCall(x)) => <<V, A, B>>' = <<V, A, B>>]_vars

\* String was called on a clock that had been updated three times or more:
\* the rendering lists two entries, one with counter 2.
C7_Witness ==
    /\ out.op = "String" /\ out.x = "A" /\ Len(out.res) = 2
    /\ \E i \in 1..2 : out.res[i][2] = 2


\* C19: in every clock built by Update calls each entry has Counter >= 1, a
\* NodeID equal to its map key and a Counter equal to the number of Update
\* calls made for that node; a node never updated has no entry.
C19_EntriesCountUpdates ==
    \A id \in ClockIds, n \in Nodes :
        IF n \in Keys(ClockOf(id))
        THEN /\ ClockOf(id).Entries[n].Counter >= 1
             /\ ClockOf(id).Entries[n].NodeID = n
             /\ ClockOf(id).Entries[n].Counter = updates[id][n]
        ELSE updates[id][n] = 0

\* A was updated three times for one node and never for the other, B once
\* for the other.
C19_Witness ==
    \E n \in Nodes, m \in Nodes :
        /\ n # m
        /\ updates["A"][n] = 3 /\ updates["A"][m] = 0 /\ m \notin Keys(A)
        /\ updates["B"][m] = 1 /\ Cnt(B, m) = 1

(***************************************************************************)
(* util.SafeSplit.  A string is the sequence of its characters.            *)
(***************************************************************************)
SP == " "
DQ == "\""
SQ == "'"

\* strings.HasPrefix, strings.HasSuffix, strings.TrimPrefix, strings.TrimSuffix
HasPrefix(s, prefix) == Len(s) >= Len(prefix) /\ SubSeq(s, 1, Len(prefix)) = prefix
HasSuffix(s, suffix) ==
    Len(s) >= Len(suffix) /\ SubSeq(s, Len(s) - Len(suffix) + 1, Len(s)) = suffix
TrimPrefix(s, prefix) == IF HasPrefix(s, prefix) THEN SubSeq(s, Len(prefix) + 1, Len(s)) ELSE s
TrimSuffix(s, suffix) == IF HasSuffix(s, suffix) THEN SubSeq(s, 1, Len(s) - Len(suffix)) ELSE s

\* strings.Split(s, " ") from position i on, cur being the piece collected
\* so far: every space ends a piece, the end of s ends the last one.
RECURSIVE SplitFrom(_, _, _)
SplitFrom(s, i, cur) ==
    IF i > Len(s) THEN <<cur>>
    ELSE IF s[i] = SP THEN <<cur>> \o SplitFrom(s, i + 1, <<>>)
    ELSE SplitFrom(s, i + 1, Append(cur, s[i]))

\* strings.Split(s, " ")
Split(s) == SplitFrom(s, 1, <<>>)

\* The loop body with the opening token stored without the space after it.
SafeSplitStep_noSpace(st, i) ==
    IF st.inquote = <<>>
    THEN IF HasPrefix(i, <<SQ>>) \/ HasPrefix(i, <<DQ>>)
         THEN [st EXCEPT !.inquote = <<i[1]>>, !.block = TrimPrefix(i, <<i[1]>>)]
         ELSE [st EXCEPT !.result = Append(@, i)]
    ELSE IF ~HasSuffix(i, st.inquote)
         THEN [st EXCEPT !.block = @ \o i \o <<SP>>]
         ELSE [result |-> Append(st.result, st.block \o TrimSuffix(i, st.inquote)),
               inquote |-> <<>>, block |-> <<>>]

\* The body of SafeSplit's loop for the piece i, st holding result, inquote
\* and block.
SafeSplitStep(st, i) ==
    IF st.inquote = <<>>
    THEN IF HasPrefix(i, <<SQ>>) \/ HasPrefix(i, <<DQ>>)
         THEN [st EXCEPT !.inquote = <<i[1]>>, !.block = TrimPrefix(i, <<i[1]>>) \o <<SP>>]
         ELSE [st EXCEPT !.result = Append(@, i)]
    ELSE IF ~HasSuffix(i, st.inquote)
         THEN [st EXCEPT !.block = @ \o i \o <<SP>>]
         ELSE [result |-> Append(st.result, st.block \o TrimSuffix(i, st.inquote)),
               inquote |-> <<>>, block |-> <<>>]

\* for _, i := range split { ... } from index k on.
RECURSIVE SafeSplitLoop(_, _, _)
SafeSplitLoop(pieces, k, st) ==
    IF k > Len(pieces) THEN st
    ELSE SafeSplitLoop(pieces, k + 1, SafeSplitStep(st, pieces[k]))

\* SafeSplit: only result is returned, whatever inquote and block hold.
SafeSplit(s) ==
    SafeSplitLoop(Split(s), 1, [result |-> <<>>, inquote |-> <<>>, block |-> <<>>]).result

\* Words typed into a line: plain, opening, closing, opening and closing,
\* a lone quote, and the empty word two adjacent spaces leave.
Words ==
    {<<>>, <<"a">>, <<"b">>, <<DQ, "a">>, <<"a", DQ>>, <<DQ, "a", DQ>>, <<DQ>>,
     <<SQ, "a">>, <<"a", SQ>>}

\* The caller appends one more word to the line, after a space.
TypeWord(word) ==
    /\ line = <<>> \/ Len(Split(line)) < MaxWords
    /\ line' = IF line = <<>> THEN word ELSE line \o <<SP>> \o word
    /\ split' = [done |-> FALSE, res |-> <<>>]
    /\ UNCHANGED <<cmdErr, printed>>
    /\ UNCHANGED <<clockVars, clientVars>>

\* SafeSplit(line)
SafeSplitCall ==
    /\ split' = [done |-> TRUE, res |-> SafeSplit(line)]
    /\ UNCHANGED <<line, cmdErr, printed>>
    /\ UNCHANGED <<clockVars, clientVars>>

NextSplit ==
    \/ \E word \in Words : TypeWord(word)
    \/ SafeSplitCall

SpecSplit == Init /\ [][NextSplit]_vars

(***************************************************************************)
(* Properties of SafeSplit                                                 *)
(***************************************************************************)
\* The words of a line joined by single spaces.
RECURSIVE JoinSp(_)
JoinSp(ws) ==
    IF ws = <<>> THEN <<>>
    ELSE IF Len(ws) = 1 THEN ws[1]
    ELSE ws[1] \o <<SP>> \o JoinSp(Tail(ws))

Opens(w) == HasPrefix(w, <<SQ>>) \/ HasPrefix(w, <<DQ>>)

\* The pieces i..j of ws form the first quoted span of the line: no earlier
\* piece opens a quote, piece i opens one, and j is the first later piece
\* that ends with the same quote character.
FirstSpan(ws, i, j) ==
    /\ i < j
    /\ \A k \in 1..(i - 1) : ~Opens(ws[k])
    /\ Opens(ws[i])
    /\ HasSuffix(ws[j], <<ws[i][1]>>)
    /\ \A k \in (i + 1)..(j - 1) : ~HasSuffix(ws[k], <<ws[i][1]>>)

\* The span's words joined by single spaces, without the opening and the
\* closing quote character.
SpanText(ws, i, j) ==
    LET joined == JoinSp(SubSeq(ws, i, j))
    IN  SubSeq(joined, 2, Len(joined) - 1)

\* C15: for a line whose first quoted span runs from a piece that begins with
\* a quote to a later piece that ends with the same quote, SafeSplit returns
\* the pieces before the span unchanged and in order, then one token that is
\* the span's words joined by single spaces without the two quote
\* characters, and then, when no later piece opens a quote, the remaining
\* pieces unchanged and in order.
C15_QuotedSpan ==
    split.done =>
        LET ws == Split(line)
        IN  \A i \in 1..Len(ws), j \in 1..Len(ws) :
               FirstSpan(ws, i, j) =>
                  /\ Len(split.res) >= i
                  /\ SubSeq(split.res, 1, i) = SubSeq(ws, 1, i - 1) \o <<SpanText(ws, i, j)>>
                  /\ (\A k \in (j + 1)..Len(ws) : ~Opens(ws[k])) =>
                        split.res = SubSeq(ws, 1, i - 1) \o <<SpanText(ws, i, j)>>
                                       \o SubSeq(ws, j + 1, Len(ws))

\* SafeSplit was called on a line of a plain word, a two-word double-quoted
\* span and a plain word, and returned three tokens.
C15_Witness ==
    /\ split.done
    /\ line = <<"b", SP, DQ, "a", SP, "a", DQ, SP, "b">>
    /\ split.res = <<<<"b">>, <<"a", SP, "a">>, <<"b">>>>

\* Piece i opens the first quote of the line and nothing closes it: it does
\* not end with its quote character, and no later piece does.
Unterminated(ws, i) ==
    /\ \A k \in 1..(i - 1) : ~Opens(ws[k])
    /\ Opens(ws[i])
    /\ \A k \in i..Len(ws) : ~HasSuffix(ws[k], <<ws[i][1]>>)

\* C16: for a line with an opening quote that is never closed, the text from
\* the opening quote to the end of the line is the last segment of the
\* result, space-joined (with or without the quote character, with or
\* without the space the loop appends).
C16_UnterminatedKept ==
    split.done =>
        LET ws == Split(line)
        IN  \A i \in 1..Len(ws) :
               Unterminated(ws, i) =>
                  LET text == JoinSp(SubSeq(ws, i, Len(ws)))
                  IN  /\ split.res # <<>>
                      /\ split.res[Len(split.res)] \in
                            {text, Tail(text), text \o <<SP>>, Tail(text) \o <<SP>>}

\* C18: when the first piece that opens a quote also ends with the same
\* quote character, SafeSplit returns it with both quote characters removed,
\* after the pieces before it, and the pieces after it are tokenized as
\* usual (returned unchanged when none of them opens a quote).
C18_SelfClosingToken ==
    split.done =>
        LET ws == Split(line)
        IN  \A i \in 1..Len(ws) :
               (/\ \A k \in 1..(i - 1) : ~Opens(ws[k])
                /\ Opens(ws[i]) /\ Len(ws[i]) >= 2 /\ HasSuffix(ws[i], <<ws[i][1]>>)
                /\ \A k \in (i + 1)..Len(ws) : ~Opens(ws[k]))
               => split.res = SubSeq(ws, 1, i - 1)
                                 \o <<SubSeq(ws[i], 2, Len(ws[i]) - 1)>>
                                 \o SubSeq(ws, i + 1, Len(ws))

(***************************************************************************)
(* SwimringClient                                                          *)
(***************************************************************************)
ONE == "ONE"
QUORUM == "QUORUM"
ALL == "ALL"
GetOp == "SwimRing.Get"
PutOp == "SwimRing.Put"
DeleteOp == "SwimRing.Delete"
StatOp == "SwimRing.Stat"

\* Strings handed to SetReadLevel/SetWriteLevel and to the -rl/-wl options:
\* the parameter is a plain string, so a value outside the three levels is
\* among them.
LevelArgs == {ONE, QUORUM, ALL, "BOGUS"}
\* Keys and values of the requests.
KeyArgs == {"k1", "k2"}
ValueArgs == {"v1"}
\* Value field of a GetResponse the server may send.
GetReplies == {"", "v1"}
\* Nodes field of a StateResponse the server may send.
StatReplies == {<<>>, <<[Address |-> "127.0.0.1:7000", Status |-> "alive", KeyCount |-> 1]>>}

GetRequest(level, key) == [Level |-> level, Key |-> key]
PutRequest(level, key, value) == [Level |-> level, Key |-> key, Value |-> value]
DeleteRequest(level, key) == [Level |-> level, Key |-> key]
StateRequest == [none |-> TRUE]

\* What a client method hands back: value, node list and error.
Return(op, val, nodes, err) == [op |-> op, val |-> val, nodes |-> nodes, err |-> err]

\* GetResponse, PutResponse, DeleteResponse, StateResponse as allocated by
\* the caller (zero values) and as filled by the server.
GetResponse(value) == [Value |-> value]
PutResponse == [none |-> TRUE]
DeleteResponse == [none |-> TRUE]
StateResponse(nodes) == [Nodes |-> nodes]

\* How c.client.Call can end: resp filled and a nil error, a non-nil error
\* with resp as allocated, or no answer at all (Call waits without a time
\* limit for the reply).
Answer(kind, err, resp) == [kind |-> kind, err |-> err, resp |-> resp]
Answers(filled, zero) ==
    {Answer("reply", "nil", r) : r \in filled}
        \cup {Answer("error", "call error", zero), Answer("silent", "nil", zero)}

\* The calling goroutine is inside a Call that is never answered.
Hung == lastResp.kind = "silent"

\* The early return of Get/Put/Delete/Stat on a nil c.client.
NotConnected(op) ==
    /\ ret' = Return(op, "", <<>>, "not connected")
    /\ UNCHANGED <<client, readLevel, writeLevel, lastReq, lastResp, calls, replies, setRead, setWrite, exited>>

\* c.client.Call(op, req, resp): one request, ended by the given answer.
Call(op, req, answer) ==
    /\ calls < MaxCalls
    /\ calls' = calls + 1
    /\ lastReq' = [op |-> op, req |-> req]
    /\ lastResp' = answer
    /\ replies' = IF answer.kind = "reply" THEN replies + 1 ELSE replies
    /\ UNCHANGED <<client, readLevel, writeLevel, setRead, setWrite, exited>>

\* SetReadLevel
SetReadLevel(level) ==
    /\ ~exited /\ ~Hung
    /\ readLevel' = level
    /\ setRead' = level
    /\ UNCHANGED <<client, writeLevel, lastReq, lastResp, calls, replies, ret, setWrite, exited>>
    /\ UNCHANGED <<clockVars, shellVars>>

\* SetWriteLevel
SetWriteLevel(level) ==
    /\ ~exited /\ ~Hung
    /\ writeLevel' = level
    /\ setWrite' = level
    /\ UNCHANGED <<client, readLevel, lastReq, lastResp, calls, replies, ret, setRead, exited>>
    /\ UNCHANGED <<clockVars, shellVars>>

\* Connect: c.client takes whatever rpc.Dial returned, nil on a failed dial.
Connect ==
    /\ ~exited /\ ~Hung
    /\ \E dialed \in BOOLEAN :
          /\ client' = IF dialed THEN "conn" ELSE "nil"
          /\ ret' = Return("Connect", "", <<>>, IF dialed THEN "nil" ELSE "dial error")
    /\ UNCHANGED <<readLevel, writeLevel, lastReq, lastResp, calls, replies, setRead, setWrite, exited>>
    /\ UNCHANGED <<clockVars, shellVars>>

\* Get that hands back resp.Value and a nil error whatever Call returned.
Get_ignoreErr(key) ==
    /\ ~exited /\ ~Hung
    /\ IF client = "nil"
       THEN NotConnected("Get")
       ELSE \E answer \in Answers({GetResponse(v) : v \in GetReplies}, GetResponse("")) :
               /\ Call(GetOp, GetRequest(readLevel, key), answer)
               /\ ret' = IF answer.kind = "silent" THEN ret
                         ELSE Return("Get", answer.resp.Value, <<>>, "nil")
    /\ UNCHANGED clockVars

\* Get
Get(key) ==
    /\ ~exited /\ ~Hung
    /\ IF client = "nil"
       THEN NotConnected("Get")
       ELSE \E answer \in Answers({GetResponse(v) : v \in GetReplies}, GetResponse("")) :
               /\ Call(GetOp, GetRequest(readLevel, key), answer)
               /\ ret' = IF answer.kind = "silent" THEN ret
                         ELSE IF answer.err # "nil" THEN Return("Get", "", <<>>, answer.err)
                         ELSE Return("Get", answer.resp.Value, <<>>, "nil")
    /\ UNCHANGED clockVars

\* Put
Put(key, value) ==
    /\ ~exited /\ ~Hung
    /\ IF client = "nil"
       THEN NotConnected("Put")
       ELSE \E answer \in Answers({PutResponse}, PutResponse) :
               /\ Call(PutOp, PutRequest(writeLevel, key, value), answer)
               /\ ret' = IF answer.kind = "silent" THEN ret
                         ELSE IF answer.err # "nil" THEN Return("Put", "", <<>>, answer.err)
                         ELSE Return("Put", "", <<>>, "nil")
    /\ UNCHANGED clockVars

\* Delete with the level taken from the read side.
Delete_readLevel(key) ==
    /\ ~exited /\ ~Hung
    /\ IF client = "nil"
       THEN NotConnected("Delete")
       ELSE \E answer \in Answers({DeleteResponse}, DeleteResponse) :
               /\ Call(DeleteOp, DeleteRequest(readLevel, key), answer)
               /\ ret' = IF answer.kind = "silent" THEN ret
                         ELSE IF answer.err # "nil" THEN Return("Delete", "", <<>>, answer.err)
                         ELSE Return("Delete", "", <<>>, "nil")
    /\ UNCHANGED clockVars

\* Delete
Delete(key) ==
    /\ ~exited /\ ~Hung
    /\ IF client = "nil"
       THEN NotConnected("Delete")
       ELSE \E answer \in Answers({DeleteResponse}, DeleteResponse) :
               /\ Call(DeleteOp, DeleteRequest(writeLevel, key), answer)
               /\ ret' = IF answer.kind = "silent" THEN ret
                         ELSE IF answer.err # "nil" THEN Return("Delete", "", <<>>, answer.err)
                         ELSE Return("Delete", "", <<>>, "nil")
    /\ UNCHANGED clockVars

\* Stat without the test of c.client.
Stat_noNilCheck ==
    /\ ~exited /\ ~Hung
    /\ \E answer \in Answers({StateResponse(n) : n \in StatReplies}, StateResponse(<<>>)) :
          /\ Call(StatOp, StateRequest, answer)
          /\ ret' = IF answer.kind = "silent" THEN ret
                    ELSE IF answer.err # "nil" THEN Return("Stat", "", <<>>, answer.err)
                    ELSE Return("Stat", "", answer.resp.Nodes, "nil")
    /\ UNCHANGED clockVars

\* Stat
Stat ==
    /\ ~exited /\ ~Hung
    /\ IF client = "nil"
       THEN NotConnected("Stat")
       ELSE \E answer \in Answers({StateResponse(n) : n \in StatReplies}, StateResponse(<<>>)) :
               /\ Call(StatOp, StateRequest, answer)
               /\ ret' = IF answer.kind = "silent" THEN ret
                         ELSE IF answer.err # "nil" THEN Return("Stat", "", <<>>, answer.err)
                         ELSE Return("Stat", "", answer.resp.Nodes, "nil")
    /\ UNCHANGED clockVars

\* main up to the command loop: a new client takes the -rl and -wl option
\* values as they are, connects, and the process exits when that fails.
Main(rl, wl) ==
    /\ ~exited
    /\ ret.op = "none" /\ setRead = "never" /\ setWrite = "never"
    /\ readLevel' = rl
    /\ setRead' = rl
    /\ writeLevel' = wl
    /\ setWrite' = wl
    /\ \E dialed \in BOOLEAN :
          /\ client' = IF dialed THEN "conn" ELSE "nil"
          /\ ret' = Return("Connect", "", <<>>, IF dialed THEN "nil" ELSE "dial error")
          /\ exited' = ~dialed
    /\ UNCHANGED <<lastReq, lastResp, calls, replies>>
    /\ UNCHANGED <<clockVars, shellVars>>

\* Get, Put, Delete and Stat called by a program that uses the client
\* directly, not through the command loop.
ApiGet(key) == Get(key) /\ UNCHANGED shellVars
ApiPut(key, value) == Put(key, value) /\ UNCHANGED shellVars
ApiDelete(key) == Delete(key) /\ UNCHANGED shellVars
ApiStat == Stat /\ UNCHANGED shellVars

NextClient ==
    \/ \E rl \in LevelArgs, wl \in LevelArgs : Main(rl, wl)
    \/ \E level \in LevelArgs : SetReadLevel(level)
    \/ \E level \in LevelArgs : SetWriteLevel(level)
    \/ Connect
    \/ \E key \in KeyArgs : ApiGet(key)
    \/ \E key \in KeyArgs, value \in ValueArgs : ApiPut(key, value)
    \/ \E key \in KeyArgs : ApiDelete(key)
    \/ ApiStat

SpecClient == Init /\ [][NextClient]_vars

\* The client with its scheduling: a step that can be taken is taken.
SpecClientLive == Init /\ [][NextClient]_vars /\ WF_vars(NextClient)

(***************************************************************************)
(* The command loop of main                                                *)
(***************************************************************************)
GetCmd == <<"g", "e", "t">>
PutCmd == <<"p", "u", "t">>
DeleteCmd == <<"d", "e", "l">>
StatCmd == <<"s", "t", "a", "t">>
ExitCmd == <<"e", "x", "i", "t">>

\* strings.Trim(s, cutset): s without the leading and trailing characters
\* that are in cutset.
RECURSIVE Trim(_, _)
Trim(s, cutset) ==
    IF s = <<>> THEN s
    ELSE IF s[1] \in cutset THEN Trim(Tail(s), cutset)
    ELSE IF s[Len(s)] \in cutset THEN Trim(SubSeq(s, 1, Len(s) - 1), cutset)
    ELSE s

\* What a command wrote to the terminal: its kind, its text, and for the
\* node table the number of rows rendered.
Printed(kind, text, rows) == [kind |-> kind, text |-> text, rows |-> rows]

\* What is printed after a client method returned err (and val).
Report(okKind, okText) ==
    IF Hung' THEN printed
    ELSE IF ret'.err # "nil" THEN Printed("error", ret'.err, 0)
    ELSE Printed(okKind, okText, 0)

\* processGet with the test len(tokens) < 2.
processGet_atLeast(tokens) ==
    IF Len(tokens) < 2
    THEN /\ printed' = Printed("usage", "usage: get <key>", 0)
         /\ UNCHANGED clientVars
    ELSE /\ Get(tokens[2])
         /\ printed' = Report("value", ret'.val)

\* processGet
processGet(tokens) ==
    IF Len(tokens) # 2
    THEN /\ printed' = Printed("usage", "usage: get <key>", 0)
         /\ UNCHANGED clientVars
    ELSE /\ Get(tokens[2])
         /\ printed' = Report("value", ret'.val)

\* processPut
processPut(tokens) ==
    IF Len(tokens) # 3
    THEN /\ printed' = Printed("usage", "usage: put <key> <value>", 0)
         /\ UNCHANGED clientVars
    ELSE /\ Put(tokens[2], tokens[3])
         /\ printed' = Report("ok", "ok")

\* processDelete
processDelete(tokens) ==
    IF Len(tokens) # 2
    THEN /\ printed' = Printed("usage", "usage: del <key>", 0)
         /\ UNCHANGED clientVars
    ELSE /\ Delete(tokens[2])
         /\ printed' = Report("ok", "ok")

\* processStat: the nodes are sorted and rendered as a table, one row per
\* node; of the table only the number of rows is kept.
processStat(tokens) ==
    /\ Stat
    /\ printed' = IF Hung' THEN printed
                  ELSE IF ret'.err # "nil" THEN Printed("error", ret'.err, 0)
                  ELSE Printed("table", "", Len(ret'.nodes))

\* processCommand(l), with the print main makes of a returned error.
processCommand(l) ==
    LET tokens == SafeSplit(l)
    IN  /\ split' = [done |-> TRUE, res |-> tokens]
        /\ IF Len(tokens) = 0
           THEN /\ cmdErr' = "nil"
                /\ printed' = Printed("nothing", "", 0)
                /\ UNCHANGED clientVars
           ELSE IF tokens[1] = GetCmd
           THEN processGet(tokens) /\ cmdErr' = IF Hung' THEN cmdErr ELSE "nil"
           ELSE IF tokens[1] = PutCmd
           THEN processPut(tokens) /\ cmdErr' = IF Hung' THEN cmdErr ELSE "nil"
           ELSE IF tokens[1] = DeleteCmd
           THEN processDelete(tokens) /\ cmdErr' = IF Hung' THEN cmdErr ELSE "nil"
           ELSE IF tokens[1] = StatCmd
           THEN processStat(tokens) /\ cmdErr' = IF Hung' THEN cmdErr ELSE "nil"
           ELSE IF tokens[1] = ExitCmd
           THEN /\ exited' = TRUE
                /\ UNCHANGED <<cmdErr, printed>>
                /\ UNCHANGED <<client, readLevel, writeLevel, lastReq, calls, ret, setRead, setWrite, lastResp, replies>>
           ELSE /\ cmdErr' = "unknown command"
                /\ printed' = Printed("error", "unknown command", 0)
                /\ UNCHANGED clientVars

\* Command words, argument words and line ends typed at the prompt; no
\* line end at all is what ReadString returns at the end of the input.
CmdWords == {GetCmd, PutCmd, DeleteCmd, StatCmd, ExitCmd, <<"f", "o", "o">>, <<>>}
ArgWords == {<<"k">>}
LineEnds == {<<"\n">>, <<"\r", "\n">>, <<>>}
ArgLists == UNION {[1..n -> ArgWords] : n \in 0..MaxArgs}
RawLines == {JoinSp(<<c>> \o args) \o e : c \in CmdWords, args \in ArgLists, e \in LineEnds}

\* One turn of main's loop: read a line, trim it, process it.
CommandLoop(command) ==
    /\ setRead # "never" /\ ~exited /\ ~Hung
    /\ line' = Trim(command, {SP, "\r", "\n"})
    /\ processCommand(line')
    /\ UNCHANGED clockVars

\* Option values the shell is started with: the defaults of -rl and -wl.
ShellLevels == {QUORUM}

NextShell ==
    \/ \E rl \in ShellLevels, wl \in ShellLevels : Main(rl, wl)
    \/ \E command \in RawLines : CommandLoop(command)

SpecShell == Init /\ [][NextShell]_vars

(***************************************************************************)
(* Properties of the command loop                                          *)
(***************************************************************************)
KnownCmds == {GetCmd, PutCmd, DeleteCmd, StatCmd, ExitCmd}

\* C17: a command line whose first token is no command makes processCommand
\* return "unknown command" without ending the process and without a client
\* operation; a get or del line that has not 2 tokens and a put line that has
\* not 3 prints the usage and invokes no client operation.
C17_MalformedStaysLocal ==
    [][setRead # "never" =>
          LET tokens == SafeSplit(line')
          IN  /\ (Len(tokens) > 0 /\ tokens[1] \notin KnownCmds) =>
                    (cmdErr' = "unknown command" /\ ~exited' /\ UNCHANGED clientVars)
              /\ (Len(tokens) > 0 /\ tokens[1] \in {GetCmd, DeleteCmd} /\ Len(tokens) # 2) =>
                    (printed'.kind = "usage" /\ UNCHANGED clientVars)
              /\ (Len(tokens) > 0 /\ tokens[1] = PutCmd /\ Len(tokens) # 3) =>
                    (printed'.kind = "usage" /\ UNCHANGED clientVars)]_vars

\* After a get that reached the server, a get line with two arguments printed
\* the usage and left the earlier request as the last one sent.
C17_Witness ==
    /\ line = <<"g", "e", "t", SP, "k", SP, "k">>
    /\ printed.kind = "usage"
    /\ calls = 1 /\ lastReq.op = GetOp /\ ret.op = "Get"

\* C20: processCommand on the empty line returns no error and invokes no
\* client operation.
C20_EmptyLineNoOp ==
    [][(setRead # "never" /\ line' = <<>>) =>
          (cmdErr' = "nil" /\ UNCHANGED clientVars)]_vars

(***************************************************************************)
(* Properties of SwimringClient                                            *)
(***************************************************************************)
Tiers == {ONE, QUORUM, ALL}

\* The level a request must carry: the latest one set, ALL when none was.
Latest(set) == IF set = "never" THEN ALL ELSE set

\* A step of one of the four remote operations.
OpStep ==
    \/ \E key \in KeyArgs : Get(key)
    \/ \E key \in KeyArgs, value \in ValueArgs : Put(key, value)
    \/ \E key \in KeyArgs : Delete(key)
    \/ Stat

\* C8: every Get request carries the read level set last (ALL if none was
\* set), every Put and Delete request the write level set last (ALL if none
\* was set); SetReadLevel leaves the write level, SetWriteLevel the read
\* level, and Get/Put/Delete/Stat leave both.
C8_RequestsCarryLevels ==
    [][/\ (calls' = calls + 1 /\ lastReq'.op = GetOp)
             => lastReq'.req.Level = Latest(setRead)
       /\ (calls' = calls + 1 /\ lastReq'.op \in {PutOp, DeleteOp})
             => lastReq'.req.Level = Latest(setWrite)
       /\ (\E level \in LevelArgs : SetReadLevel(level)) => writeLevel' = writeLevel
       /\ (\E level \in LevelArgs : SetWriteLevel(level)) => readLevel' = readLevel
       /\ OpStep => (readLevel' = readLevel /\ writeLevel' = writeLevel)]_vars

\* A Delete request went out with the write level set last while the read
\* level was set to another value.
C8_Witness ==
    /\ lastReq.op = DeleteOp /\ lastReq.req.Level = QUORUM
    /\ setWrite = QUORUM /\ setRead = ONE
    /\ readLevel = ONE /\ writeLevel = QUORUM

\* C9: the read level and the write level are each one of ONE, QUORUM, ALL in
\* every state, and so is the Level of every request sent.
C9_LevelsAreTiers ==
    /\ readLevel \in Tiers
    /\ writeLevel \in Tiers
    /\ lastReq.op \in {GetOp, PutOp, DeleteOp} => lastReq.req.Level \in Tiers

\* C10: an operation invoked on a nil c.client returns "not connected",
\* issues no remote call and changes nothing else of the client; c.client is
\* nil after a failed Connect and set after a successful one, and an operation
\* invoked on a set c.client issues its remote call.
C10_NotConnected ==
    [][/\ (client = "nil" /\ OpStep)
             => /\ ret'.err = "not connected"
                /\ calls' = calls /\ lastReq' = lastReq
                /\ client' = client /\ readLevel' = readLevel /\ writeLevel' = writeLevel
       /\ (client = "conn" /\ OpStep)
             => /\ calls' = calls + 1
                /\ lastResp'.kind # "silent" => ret'.err # "not connected"
       /\ (Connect /\ ret'.err = "nil") => client' = "conn"
       /\ (Connect /\ ret'.err # "nil") => client' = "nil"]_vars

\* An operation was refused as not connected on a client that had issued a
\* call earlier: its last Connect failed.
C10_Witness ==
    /\ ret.err = "not connected"
    /\ calls >= 1
    /\ client = "nil"

\* The value and the node list a response hands to the caller.
ValueOf(op, resp) == IF op = GetOp THEN resp.Value ELSE ""
NodesOf(op, resp) == IF op = StatOp THEN resp.Nodes ELSE <<>>

\* C11: on a connected client each Get, Put, Delete or Stat issues exactly
\* one remote call; when that call fails the operation returns the call's
\* error with an empty value and no nodes, and when it is answered the
\* operation returns the response's value and no error.
C11_OneCallNoRetry ==
    [][(client = "conn" /\ OpStep) =>
          /\ calls' = calls + 1
          /\ lastResp'.kind = "error" =>
                (ret'.err = lastResp'.err /\ ret'.err # "nil" /\ ret'.val = "" /\ ret'.nodes = <<>>)
          /\ lastResp'.kind = "reply" =>
                /\ ret'.err = "nil"
                /\ ret'.val = ValueOf(lastReq'.op, lastResp'.resp)
                /\ ret'.nodes = NodesOf(lastReq'.op, lastResp'.resp)]_vars

\* A Get was answered with a value after an earlier call had failed: two
\* calls, one response.
C11_Witness ==
    /\ calls = 2 /\ replies = 1
    /\ lastReq.op = GetOp /\ lastResp.kind = "reply"
    /\ ret.op = "Get" /\ ret.err = "nil" /\ ret.val = "v1"

\* The version vector a write request carries: a request without a vector
\* carries no entry.
CarriedClock(req) == IF "Clock" \in DOMAIN req THEN req.Clock ELSE NewVectorClock

\* C12: of two successive puts the later request carries a version vector
\* that compares NEWER than the vector of the earlier one.
C12_PutAdvancesVector ==
    [][(calls' = calls + 1 /\ lastReq'.op = PutOp /\ lastReq.op = PutOp) =>
          Compare(CarriedClock(lastReq'.req), CarriedClock(lastReq.req)) = "NEWER"]_vars

\* Responses the tier requires of n replicas.
Required(level, n) ==
    IF level = ONE THEN 1 ELSE IF level = QUORUM THEN (n \div 2) + 1 ELSE n

\* Sizes of the replica set of a key.
ReplicaCounts == {1, 3, 5}

\* C13: a read over n replicas returns when exactly the number of responses
\* its tier requires has arrived: 1 for ONE, n \div 2 + 1 for QUORUM, n for
\* ALL.
C13_ReadAwaitsTier ==
    [][\A n \in ReplicaCounts :
          (calls' = calls + 1 /\ lastReq'.op = GetOp /\ lastResp'.kind = "reply"
              /\ readLevel \in Tiers)
          => replies' - replies = Required(readLevel, n)]_vars

\* C14: a write that is never answered eventually returns to its caller
\* with a timeout error.
C14_WriteTimesOut ==
    (lastReq.op \in {PutOp, DeleteOp} /\ Hung)
        ~> (ret.op \in {"Put", "Delete"} /\ ret.err = "timeout")

====
